---- MODULE Spec2Model ----
(***************************************************************************)
(* Model of the agent loop (src/loop.py, class AgentLoop): the             *)
(* conversation store, the history sanitizer, the pruning policy, the      *)
(* retry loop around the remote call and the tool dispatcher.              *)
(*                                                                         *)
(* Strings are modelled by their length (and, for a user input, by the     *)
(* number of the turn that supplied it), because the code only ever        *)
(* measures, truncates and copies them.  Tool ids are 1..NumIds, 0 stands  *)
(* for a missing id.                                                       *)
(***************************************************************************)
EXTENDS Integers, Sequences, FiniteSets, TLC

\* ---------------------------------------------------------------- bounds
NumIds == 2
MaxMsgs == 3
MaxBlocks == 2
MaxTurns == 2
MaxCalls == 2
Small == 10
MaxPad == 9

\* ------------------------------------------------------ program constants
max_retries == 3
max_token_limit == 150000
\* _prune_conversation_history: thresholds, marker and placeholder lengths
ResultTruncLen == 1000
TextTruncLen == 5000
KeepLast == 10
TruncMarkerLen == 23
RemovedPlaceholderLen == 42
\* add_message: threshold, marker and placeholder lengths
AddTruncLen == 5000
AddMarkerLen == 38
AddPlaceholderLen == 58

\* A text long enough to put one message over the token budget on its own.
Huge == 5 * max_token_limit

Ids == 1..NumIds

\* -------------------------------------------------------------- data model
\* ContentBlock: one record shape for the four kinds of dict the code puts
\* into a content list.  "call_record" is the dict without a "type" key that
\* run_async appends next to every tool_result (loop.py:786-791).
TextBlock(n) ==
    [type |-> "text", id |-> 0, name |-> "", len |-> n, str |-> FALSE,
     img |-> FALSE, is_error |-> "absent"]

ToolUseBlock(i, nm) ==
    [type |-> "tool_use", id |-> i, name |-> nm, len |-> 0, str |-> FALSE,
     img |-> FALSE, is_error |-> "absent"]

\* content is a str (s = TRUE) of length n, or a list whose repr has length n
ToolResultBlock(i, s, n, im, e) ==
    [type |-> "tool_result", id |-> i, name |-> "", len |-> n, str |-> s,
     img |-> im, is_error |-> e]

CallRecord(i, nm, n) ==
    [type |-> "call_record", id |-> i, name |-> nm, len |-> n, str |-> FALSE,
     img |-> FALSE, is_error |-> "absent"]

\* Message {"role": r, "content": <str>}: txt names the string, len its length
StrMsg(r, t, n) ==
    [role |-> r, str |-> TRUE, txt |-> t, len |-> n, content |-> <<>>]

\* Message {"role": r, "content": [blocks]}
ListMsg(r, c) ==
    [role |-> r, str |-> FALSE, txt |-> 0, len |-> 0, content |-> c]

IsToolResult(b) == b.type = "tool_result"
IsToolUse(b) == b.type = "tool_use"

HasToolResult(m) == \E k \in DOMAIN m.content : IsToolResult(m.content[k])

\* --------------------------------------------------------- size estimate
\* len(str(item)) of one content block: the length of the dict's repr with
\* empty payloads plus the payload length
BlockChars(b) ==
    CASE b.type = "text" -> 28 + b.len
      [] b.type = "tool_use" -> 55 + b.len
      [] b.type = "call_record" -> 57 + b.len
      [] OTHER ->
           (IF b.is_error = "absent" THEN 57 ELSE IF b.str THEN 75 ELSE 76)
           + b.len

RECURSIVE SumBlockChars(_)
SumBlockChars(c) ==
    IF c = <<>> THEN 0 ELSE BlockChars(Head(c)) + SumBlockChars(Tail(c))

\* len(str(msg))
MsgChars(m) ==
    (IF m.role = "user" THEN 31 ELSE 36)
    + (IF m.str THEN m.len
       ELSE SumBlockChars(m.content)
            + (IF Len(m.content) > 1 THEN 2 * (Len(m.content) - 1) ELSE 0))

RECURSIVE SumMsgChars(_)
SumMsgChars(h) ==
    IF h = <<>> THEN 0 ELSE MsgChars(Head(h)) + SumMsgChars(Tail(h))

\* approx_tokens = total_chars // 4
EstimateTokens(h) == SumMsgChars(h) \div 4

\* ------------------------------------------------------ history sanitizer
\* First scan: the ids of the tool_use blocks of assistant list messages
ToolUseIds(h) ==
    {i \in Ids : \E m \in DOMAIN h :
        /\ h[m].role = "assistant" /\ ~h[m].str
        /\ \E k \in DOMAIN h[m].content :
              IsToolUse(h[m].content[k]) /\ h[m].content[k].id = i}

\* the tool_result blocks (with an id) of user list messages, in store order
RECURSIVE FlatResults(_)
FlatResults(h) ==
    IF h = <<>> THEN <<>>
    ELSE (IF Head(h).role = "user" /\ ~Head(h).str
          THEN SelectSeq(Head(h).content,
                         LAMBDA b : IsToolResult(b) /\ b.id # 0)
          ELSE <<>>)
         \o FlatResults(Tail(h))

\* First scan: tool_results[tool_id] = item, a later block overwrites an
\* earlier one with the same id
ToolResultsOf(h) ==
    LET fr == FlatResults(h)
    IN  [i \in {fr[k].id : k \in DOMAIN fr} |->
            fr[CHOOSE k \in DOMAIN fr :
                  fr[k].id = i /\ \A j \in DOMAIN fr : fr[j].id = i => j <= k]]

ValidToolIds(h) == ToolUseIds(h) \cap DOMAIN ToolResultsOf(h)

\* Assistant branch, the filter: text blocks and the tool_use blocks whose id
\* is valid and not yet processed; every other dict is dropped
AssistantKeep(c, valid, proc) ==
    SelectSeq(c, LAMBDA b :
        \/ b.type = "text"
        \/ IsToolUse(b) /\ b.id # 0 /\ b.id \in valid /\ b.id \notin proc)

\* Assistant branch, the pairing: for tool_id in tool_use_ids_in_message, one
\* user message per id; ord is the iteration order of the Python set
RECURSIVE PairedResults(_, _, _, _)
PairedResults(ord, ids, results, proc) ==
    IF ord = <<>> THEN [out |-> <<>>, proc |-> proc]
    ELSE LET i == Head(ord)
             hit == i \in ids /\ i \in DOMAIN results /\ i \notin proc
             rest == PairedResults(Tail(ord), ids, results,
                                   IF hit THEN proc \cup {i} ELSE proc)
         IN  [out |-> (IF hit THEN <<ListMsg("user", <<results[i]>>)>>
                       ELSE <<>>) \o rest.out,
              proc |-> rest.proc]

SanitizeAssistant(m, valid, results, proc, ord) ==
    LET new_content == AssistantKeep(m.content, valid, proc)
        ids == {new_content[k].id :
                   k \in {j \in DOMAIN new_content : IsToolUse(new_content[j])}}
        paired == PairedResults(ord, ids, results, proc)
    IN  IF new_content = <<>> THEN [out |-> <<>>, proc |-> proc]
        ELSE [out |-> <<ListMsg(m.role, new_content)>> \o paired.out,
              proc |-> paired.proc]

\* User branch, the filter: a tool_result is kept when its id is valid and
\* not yet processed, every other item is kept
RECURSIVE UserKeep(_, _, _)
UserKeep(c, valid, proc) ==
    IF c = <<>> THEN [content |-> <<>>, proc |-> proc, has |-> FALSE]
    ELSE LET b == Head(c)
         IN  IF IsToolResult(b)
             THEN IF b.id \in proc \/ b.id \notin valid
                  THEN UserKeep(Tail(c), valid, proc)
                  ELSE LET r == UserKeep(Tail(c), valid, proc \cup {b.id})
                       IN  [content |-> <<b>> \o r.content, proc |-> r.proc,
                            has |-> TRUE]
             ELSE LET r == UserKeep(Tail(c), valid, proc)
                  IN  [content |-> <<b>> \o r.content, proc |-> r.proc,
                       has |-> r.has]

\* a user branch without its last case: a list message with no tool_result
\* is not appended
SanitizeUser_DropsPlain(m, valid, proc) ==
    LET r == UserKeep(m.content, valid, proc)
    IN  IF r.has THEN [out |-> <<ListMsg(m.role, r.content)>>, proc |-> r.proc]
        ELSE [out |-> <<>>, proc |-> proc]

SanitizeUser(m, valid, proc) ==
    LET r == UserKeep(m.content, valid, proc)
    IN  IF r.has THEN [out |-> <<ListMsg(m.role, r.content)>>, proc |-> r.proc]
        ELSE IF ~HasToolResult(m) THEN [out |-> <<m>>, proc |-> proc]
        ELSE [out |-> <<>>, proc |-> proc]

\* an iteration without the branch for string contents
SanitizeMsg_DropsStrings(m, valid, results, proc, ord) ==
    IF m.role = "assistant" /\ ~m.str
    THEN SanitizeAssistant(m, valid, results, proc, ord)
    ELSE IF m.role = "user" /\ ~m.str
    THEN SanitizeUser(m, valid, proc)
    ELSE [out |-> <<>>, proc |-> proc]

\* One iteration of the second loop over the store
SanitizeMsg(m, valid, results, proc, ord) ==
    IF m.role = "assistant" /\ ~m.str
    THEN SanitizeAssistant(m, valid, results, proc, ord)
    ELSE IF m.role = "user" /\ ~m.str
    THEN SanitizeUser(m, valid, proc)
    ELSE [out |-> <<m>>, proc |-> proc]

RECURSIVE SanitizeWalk(_, _, _, _, _)
SanitizeWalk(h, valid, results, proc, ord) ==
    IF h = <<>> THEN <<>>
    ELSE LET r == SanitizeMsg(Head(h), valid, results, proc, ord)
         IN  r.out \o SanitizeWalk(Tail(h), valid, results, r.proc, ord)

\* a user message that is a string or carries no tool_result
IsPureUser(m) == m.role = "user" /\ (m.str \/ ~HasToolResult(m))

\* the secondary truncation of an over-budget view
SecondaryTruncate(s) ==
    IF EstimateTokens(s) > max_token_limit /\ Len(s) > 2
    THEN LET pure == {i \in DOMAIN s : IsPureUser(s[i])}
         IN  IF pure # {}
             THEN LET last_user_idx == CHOOSE i \in pure : \A j \in pure : j <= i
                  IN  SubSeq(s, last_user_idx, Len(s))
             ELSE SubSeq(s, Len(s), Len(s))
    ELSE s

get_sanitized_conversation_history(h, ord) ==
    SecondaryTruncate(
        SanitizeWalk(h, ValidToolIds(h), ToolResultsOf(h), {}, ord))

\* ---------------------------------------------------------- pruning policy
\* the redaction of one tool_result block whose content is a str
RedactBlock(b) ==
    IF IsToolResult(b) /\ b.str
    THEN IF b.img
         THEN [b EXCEPT !.len = RemovedPlaceholderLen, !.img = FALSE]
         ELSE IF b.len > ResultTruncLen
         THEN [b EXCEPT !.len = ResultTruncLen + TruncMarkerLen]
         ELSE b
    ELSE b

\* the redaction of one message: every block of a list content, or a long
\* string content
RedactMsg(m) ==
    IF ~m.str
    THEN [m EXCEPT !.content = [k \in DOMAIN m.content |-> RedactBlock(m.content[k])]]
    ELSE IF m.len > TextTruncLen
    THEN [m EXCEPT !.len = TextTruncLen + TruncMarkerLen]
    ELSE m

RedactAll(h) == [k \in DOMAIN h |-> RedactMsg(h[k])]

\* keep only the last KeepLast messages
WindowLast(h) ==
    IF Len(h) > KeepLast THEN SubSeq(h, Len(h) - KeepLast + 1, Len(h)) ELSE h

\* keep only the most recent exchange: from the last message of role user
CollapseLast(h) ==
    IF EstimateTokens(h) > max_token_limit /\ Len(h) > 2
    THEN LET users == {i \in DOMAIN h : h[i].role = "user"}
         IN  IF users # {}
             THEN LET last_user_idx == CHOOSE i \in users : \A j \in users : j <= i
                  IN  SubSeq(h, last_user_idx, Len(h))
             ELSE SubSeq(h, Len(h), Len(h))
    ELSE h

prune_conversation_history(h) ==
    IF EstimateTokens(h) > max_token_limit
    THEN CollapseLast(WindowLast(RedactAll(h)))
    ELSE h

\* ------------------------------------------------------ conversation store
\* add_message limits the tool_result blocks of a user list content
LimitBlock(b) ==
    IF IsToolResult(b) /\ b.str
    THEN IF b.img
         THEN [b EXCEPT !.len = AddPlaceholderLen, !.img = FALSE,
                        !.is_error = "absent"]
         ELSE IF b.len > AddTruncLen
         THEN [b EXCEPT !.len = AddTruncLen + AddMarkerLen]
         ELSE b
    ELSE b

LimitContent(m) ==
    IF m.role = "user" /\ ~m.str
    THEN [m EXCEPT !.content = [k \in DOMAIN m.content |-> LimitBlock(m.content[k])]]
    ELSE m

\* add_message(role, content): prune, limit, append; the save that follows
\* is save_chat_history below
add_message(h, m) == Append(prune_conversation_history(h), LimitContent(m))

\* -------------------------------------------------------------- agent loop
\* ToolCollection.tools is keyed by the tool's class name; the schema sent to
\* the remote API names the same tool "computer"
Registry == {"ComputerTool20241022"}
ToolNames == {"computer", "ComputerTool20241022"}

\* ToolCollection.to_params: the names of the tool schemas sent with a request,
\* one per registered tool, each the tool's own name attribute
AdvertisedNames == {"computer"}

VARIABLES
    store,               \* self.conversation_history
    processed_tool_ids,  \* self.processed_tool_ids
    stats,               \* self.stats: errors and tool_usage
    hashOrder,           \* iteration order of a set of ids in this process
    pc,                  \* position of run_async, "idle" between turns
    turn,                \* number of turns started
    attempt,             \* loop variable of the retry loop
    user_input,          \* the message made of the current turn's input
    sanitized,           \* the view built for the latest remote call
    resanitized,         \* the sanitized view, sanitized once more
    response,            \* the response of the successful remote call
    pos,                 \* position of the dispatcher in the response
    tool_results,        \* the list collected by the dispatcher
    ret,                 \* what the latest turn returned to its caller
    runs,                \* per id: invocations of a registered tool since the
                         \* user last cleared the history
    apiCalls,            \* remote calls made in the current turn
    turnRuns,            \* tool invocations made in the current turn
    lastError,           \* class of the error of the latest attempt, if any
    sawSizeLimit,        \* an attempt of the current turn hit the size limit
    freshCalls,          \* the ids of the current response are distinct and
                         \* none was processed when the response arrived
    lastOutcome,         \* what the latest tool invocation of the turn did
    disk,                \* the chat directory: "ok", or "failing" on any write
    chat_file            \* chat_history.json: "none", "saved" or "partial"

vars == <<store, processed_tool_ids, stats, hashOrder, pc, turn, attempt,
          user_input, sanitized, resanitized, response, pos, tool_results,
          ret, runs, apiCalls, turnRuns, lastError, sawSizeLimit,
          freshCalls, lastOutcome, disk, chat_file>>

Range(f) == {f[k] : k \in DOMAIN f}

Perms(S) ==
    {f \in [1..Cardinality(S) -> S] : \A i, j \in DOMAIN f : i # j => f[i] # f[j]}

NoResponse == [flat |-> FALSE, textlen |-> 0, calls |-> <<>>]
NoReturn == [kind |-> "none", calls |-> 0]

InitStats ==
    [api |-> 0, tool |-> 0, other |-> 0,
     tool_usage |-> [n \in ToolNames |-> [count |-> 0, success |-> 0, failures |-> 0]]]

\* AgentLoop.__init__, and the fields of a run_async that has not started
InitLoop ==
    /\ processed_tool_ids = {}
    /\ stats = InitStats
    /\ hashOrder \in Perms(Ids)
    /\ turn = 0
    /\ attempt = 0
    /\ user_input = StrMsg("user", 0, 0)
    /\ sanitized = <<>>
    /\ resanitized = <<>>
    /\ response = NoResponse
    /\ pos = 0
    /\ tool_results = <<>>
    /\ ret = NoReturn
    /\ runs = [i \in Ids |-> 0]
    /\ apiCalls = 0
    /\ turnRuns = 0
    /\ lastError = "none"
    /\ sawSizeLimit = FALSE
    /\ freshCalls = FALSE
    /\ lastOutcome = "none"
    /\ chat_file = "none"

Init ==
    /\ InitLoop
    /\ store = <<>>
    /\ pc = "idle"
    /\ disk = "ok"

\* the store holds a call record, whose "result" is a ToolResult object
HasRecord(h) ==
    \E m \in DOMAIN h :
        /\ ~h[m].str
        /\ \E k \in DOMAIN h[m].content : h[m].content[k].type = "call_record"

\* the write of chat_history.json fails: open() fails on a failing directory,
\* json.dump raises TypeError on an object that is not JSON serializable
SaveFails(h, d) == d = "failing" \/ HasRecord(h)

\* a _save_chat_history without its try/except
save_chat_history_Raises(h, d) == IF SaveFails(h, d) THEN "raised" ELSE "saved"

\* _save_chat_history: the failure is logged inside the except branch
save_chat_history(h, d) == IF SaveFails(h, d) THEN "swallowed" ELSE "saved"

\* the file after the attempt to write h: untouched when it cannot be opened,
\* truncated and written up to the offending object when json.dump raises
FileAfter(f, h, d) ==
    IF d = "failing" THEN f ELSE IF HasRecord(h) THEN "partial" ELSE "saved"

\* what the caller gets when an exception leaves run_async or clear_history
Propagated == [kind |-> "exception", calls |-> 0]

\* a wrapper that hands the turn to the event loop and returns at once
Accepting_Always == TRUE

\* run: loop.run_until_complete blocks the caller until the turn has
\* returned, and every caller runs its turns from one thread
Accepting == pc = "idle"

\* a clear_history that keeps the first message of the store
clear_history_KeepsFirst(h, p) ==
    [store |-> IF h = <<>> THEN <<>> ELSE <<Head(h)>>,
     processed_tool_ids |-> {}]

\* a clear_history that keeps the processed ids
clear_history_KeepsIds(h, p) == [store |-> <<>>, processed_tool_ids |-> p]

\* a clear_history that keeps the messages
clear_history_KeepsStore(h, p) == [store |-> h, processed_tool_ids |-> {}]

\* clear_history: what it leaves of the store h and of the processed ids p
clear_history(h, p) == [store |-> <<>>, processed_tool_ids |-> {}]

\* run_async, first statement: the user input is appended and the retry loop
\* is entered
RunTurn(n) ==
    /\ Accepting
    /\ turn < MaxTurns
    /\ turn' = turn + 1
    /\ LET m == StrMsg("user", turn + 1, n)
           h == add_message(store, m)
           sv == save_chat_history(h, disk)
       IN  /\ user_input' = m
           /\ store' = h
           /\ chat_file' = FileAfter(chat_file, h, disk)
           /\ ret' = IF sv = "raised" THEN Propagated ELSE NoReturn
           /\ pc' = IF sv = "raised" THEN "idle" ELSE "attempt"
    /\ attempt' = 0
    /\ apiCalls' = 0
    /\ turnRuns' = 0
    /\ response' = NoResponse
    /\ tool_results' = <<>>
    /\ pos' = 0
    /\ lastError' = "none"
    /\ sawSizeLimit' = FALSE
    /\ freshCalls' = FALSE
    /\ lastOutcome' = "none"
    /\ UNCHANGED <<processed_tool_ids, stats, hashOrder, sanitized,
                   resanitized, runs, disk>>

\* a sanitizer that works in place: it writes the view to the store and
\* records the paired ids in the processed ids of the agent
SanitizeEffect_InPlace(h, p, ord) ==
    [store |-> get_sanitized_conversation_history(h, ord),
     processed_tool_ids |-> p \cup ValidToolIds(h)]

\* what get_sanitized_conversation_history leaves of the store h and of the
\* processed ids p: it fills a new list and a local set of its own
SanitizeEffect(h, p, ord) == [store |-> h, processed_tool_ids |-> p]

\* the responses the remote API may give: a flat string, or a text block
\* and up to MaxCalls tool_use blocks
Calls ==
    UNION {[1..k -> [id : Ids, name : ToolNames]] : k \in 0..MaxCalls}

Responses ==
    {[flat |-> TRUE, textlen |-> Small, calls |-> <<>>]}
    \cup {[flat |-> FALSE, textlen |-> Small, calls |-> c] : c \in Calls}

\* The remote call is a collaborator: it either returns a response or raises
\* an error of one of three classes, told apart by the text of the exception.
\* one iteration of the retry loop whose remote call returns a response
ApiSuccess(r) ==
    /\ pc = "attempt"
    /\ sanitized' = get_sanitized_conversation_history(store, hashOrder)
    /\ apiCalls' = apiCalls + 1
    /\ response' = r
    /\ lastError' = "none"
    /\ pc' = "process"
    /\ store' = SanitizeEffect(store, processed_tool_ids, hashOrder).store
    /\ processed_tool_ids' =
          SanitizeEffect(store, processed_tool_ids, hashOrder).processed_tool_ids
    /\ UNCHANGED <<stats, hashOrder, turn, attempt,
                   user_input, resanitized, pos, tool_results, ret, runs,
                   turnRuns, sawSizeLimit,
                   freshCalls, lastOutcome, disk, chat_file>>

ErrorClasses == {"size_limit", "pairing", "other"}

\* an except branch that resets the history after every failed attempt
ResetsHistory_Always(e) == TRUE

\* the two error texts after which the history is cleared and the user
\* input added again: "prompt is too long", and the tool id pairing errors
ResetsHistory(e) == e \in {"size_limit", "pairing"}

\* a retry loop that never gives up
MayRetry_Always(a) == TRUE

\* if attempt < self.max_retries - 1: sleep and retry, else return
MayRetry(a) == a < max_retries - 1

\* a last attempt whose failure is raised to the caller
FailureReturn_Raises == [kind |-> "exception", calls |-> 0]

\* the pair returned after the last failed attempt: the error text, no calls
FailureReturn == [kind |-> "api_error", calls |-> 0]

\* one iteration of the retry loop whose remote call raises: the except
\* branch, with the reset for a size-limit or pairing error, then either the
\* backoff or the return of the error text
ApiFailure(e) ==
    /\ pc = "attempt"
    /\ sanitized' = get_sanitized_conversation_history(store, hashOrder)
    /\ apiCalls' = apiCalls + 1
    /\ stats' = [stats EXCEPT !.api = @ + 1]
    /\ lastError' = e
    /\ sawSizeLimit' = (sawSizeLimit \/ e = "size_limit")
    /\ LET reset == ResetsHistory(e)
           s == SanitizeEffect(store, processed_tool_ids, hashOrder)
           c == clear_history(s.store, s.processed_tool_ids)
           sv1 == IF reset THEN save_chat_history(c.store, disk) ELSE "none"
           h == IF sv1 = "raised" THEN c.store
                ELSE add_message(c.store, user_input)
           sv2 == IF reset /\ sv1 # "raised"
                  THEN save_chat_history(h, disk) ELSE "none"
       IN  /\ processed_tool_ids' =
                  IF reset THEN c.processed_tool_ids ELSE s.processed_tool_ids
           /\ store' = IF reset THEN h ELSE s.store
           /\ chat_file' =
                  IF reset THEN FileAfter(chat_file, h, disk) ELSE chat_file
           /\ IF sv1 = "raised" \/ sv2 = "raised"
              THEN /\ pc' = "idle"
                   /\ ret' = Propagated
                   /\ attempt' = 0
              ELSE IF MayRetry(attempt)
              THEN /\ pc' = "sleep"
                   /\ UNCHANGED <<ret, attempt>>
              ELSE /\ pc' = "idle"
                   /\ ret' = FailureReturn
                   /\ attempt' = 0
    /\ UNCHANGED <<hashOrder, turn, user_input, resanitized, response, pos,
                   tool_results, runs, turnRuns, freshCalls, lastOutcome,
                   disk>>

\* await asyncio.sleep(retry_time) returns and the for loop advances
Backoff ==
    /\ pc = "sleep"
    /\ attempt' = attempt + 1
    /\ pc' = "attempt"
    /\ UNCHANGED <<store, processed_tool_ids, stats, hashOrder, turn,
                   user_input, sanitized, resanitized, response, pos,
                   tool_results, ret, runs, apiCalls, turnRuns,
                   lastError, sawSizeLimit,
                   freshCalls, lastOutcome, disk, chat_file>>

\* the processing of a response that is not a list of typed blocks raises
\* inside the try block: the error text is returned
ProcessFails ==
    /\ pc = "process"
    /\ response.flat
    /\ stats' = [stats EXCEPT !.other = @ + 1]
    /\ ret' = [kind |-> "processing_error", calls |-> 0]
    /\ pc' = "idle"
    /\ response' = NoResponse
    /\ attempt' = 0
    /\ UNCHANGED <<store, processed_tool_ids, hashOrder, turn, user_input,
                   sanitized, resanitized, pos, tool_results, runs, apiCalls,
                   turnRuns,
                   lastError, sawSizeLimit,
                   freshCalls, lastOutcome, disk, chat_file>>

\* assistant_content: one text block, then the tool_use blocks in order
AssistantContent(r) ==
    <<TextBlock(r.textlen)>>
    \o [k \in DOMAIN r.calls |-> ToolUseBlock(r.calls[k].id, r.calls[k].name)]

\* the assistant message is appended to the store, without pruning
ProcessResponse ==
    /\ pc = "process"
    /\ ~response.flat
    /\ store' = Append(store, ListMsg("assistant", AssistantContent(response)))
    /\ tool_results' = <<>>
    /\ pos' = 1
    /\ pc' = "dispatch"
    /\ freshCalls' =
          /\ \A j, k \in DOMAIN response.calls :
                j # k => response.calls[j].id # response.calls[k].id
          /\ \A k \in DOMAIN response.calls :
                response.calls[k].id \notin processed_tool_ids
    /\ UNCHANGED <<processed_tool_ids, stats, hashOrder, turn, attempt,
                   user_input, sanitized, resanitized, response, ret, runs,
                   apiCalls, turnRuns,
                   lastError, sawSizeLimit,
                   lastOutcome, disk, chat_file>>

\* a dispatcher that answers a processed id with an outcome of its own
DispatchSkip_Cached ==
    /\ pc = "dispatch"
    /\ pos <= Len(response.calls)
    /\ response.calls[pos].id \in processed_tool_ids
    /\ pos' = pos + 1
    /\ tool_results' = Append(tool_results,
           ToolResultBlock(response.calls[pos].id, FALSE, Small, FALSE, "false"))
    /\ UNCHANGED <<store, processed_tool_ids, stats, hashOrder, pc, turn,
                   attempt, user_input, sanitized, resanitized, response,
                   ret, runs, apiCalls, turnRuns, lastError, sawSizeLimit,
                   freshCalls, lastOutcome, disk, chat_file>>

\* dispatcher, an id already in processed_tool_ids: continue
DispatchSkip ==
    /\ pc = "dispatch"
    /\ pos <= Len(response.calls)
    /\ response.calls[pos].id \in processed_tool_ids
    /\ pos' = pos + 1
    /\ UNCHANGED <<store, processed_tool_ids, stats, hashOrder, pc, turn,
                   attempt, user_input, sanitized, resanitized, response,
                   tool_results, ret, runs, apiCalls, turnRuns,
                   lastError, sawSizeLimit,
                   freshCalls, lastOutcome, disk, chat_file>>

\* what ToolCollection.run does for a registered tool
ToolOutcomes == {"output", "screenshot", "error_result", "raise"}

\* success, as the dispatcher records it: no exception was raised
Succeeded(o) == o \in {"output", "screenshot", "error_result"}

\* a _make_api_tool_result that reports a missing tool as a success
make_api_tool_result_NotFoundOk(o, i) ==
    CASE o = "screenshot" -> ToolResultBlock(i, FALSE, Huge, FALSE, "false")
      [] o \in {"output", "not_found"} ->
            ToolResultBlock(i, FALSE, Small, FALSE, "false")
      [] OTHER -> ToolResultBlock(i, TRUE, Small, FALSE, "true")

\* a _make_api_tool_result that does not mark the outcome of a raising tool
make_api_tool_result_RaiseUnmarked(o, i) ==
    CASE o = "screenshot" -> ToolResultBlock(i, FALSE, Huge, FALSE, "false")
      [] o = "output" -> ToolResultBlock(i, FALSE, Small, FALSE, "false")
      [] o = "raise" -> ToolResultBlock(i, TRUE, Small, FALSE, "false")
      [] OTHER -> ToolResultBlock(i, TRUE, Small, FALSE, "true")

\* _make_api_tool_result: an error gives a str content and is_error, a
\* success gives a list content
make_api_tool_result(o, i) ==
    CASE o = "output" -> ToolResultBlock(i, FALSE, Small, FALSE, "false")
      [] o = "screenshot" -> ToolResultBlock(i, FALSE, Huge, FALSE, "false")
      [] OTHER -> ToolResultBlock(i, TRUE, Small, FALSE, "true")

\* the two dicts the dispatcher appends to tool_results for one invocation
ResultEntries(o, c) ==
    <<CallRecord(c.id, c.name, IF o = "screenshot" THEN Huge ELSE Small),
      make_api_tool_result(o, c.id)>>

\* a dispatcher that puts the latest entries first
Collect_Prepends(tr, o, c) == ResultEntries(o, c) \o tr

\* tool_results.append, twice: the entries of one invocation go to the end
Collect(tr, o, c) == tr \o ResultEntries(o, c)

\* statistics that count an invocation but not its success
RecordUsage_SuccessUncounted(st, nm, ok) ==
    [st EXCEPT !.tool_usage[nm].count = @ + 1,
               !.tool_usage[nm].failures = IF ok THEN @ ELSE @ + 1,
               !.tool = IF ok THEN @ ELSE @ + 1]

\* the per-tool statistics after one invocation
RecordUsage(st, nm, ok) ==
    [st EXCEPT !.tool_usage[nm].count = @ + 1,
               !.tool_usage[nm].success = IF ok THEN @ + 1 ELSE @,
               !.tool_usage[nm].failures = IF ok THEN @ ELSE @ + 1,
               !.tool = IF ok THEN @ ELSE @ + 1]

\* a dispatcher that does not record the id it handles
MarkProcessed_Forgets(p, i) == p

\* self.processed_tool_ids.add(tool_id)
MarkProcessed(p, i) == p \cup {i}

\* dispatcher, an id not yet processed: the id is recorded, the tool is run
\* (or found missing), the statistics and tool_results are updated
DispatchRun(o) ==
    /\ pc = "dispatch"
    /\ pos <= Len(response.calls)
    /\ LET c == response.calls[pos]
           found == c.name \in Registry
       IN  /\ c.id \notin processed_tool_ids
           /\ IF found THEN o \in ToolOutcomes ELSE o = "not_found"
           /\ processed_tool_ids' = MarkProcessed(processed_tool_ids, c.id)
           /\ runs' = IF found THEN [runs EXCEPT ![c.id] = @ + 1] ELSE runs
           /\ turnRuns' = IF found THEN turnRuns + 1 ELSE turnRuns
           /\ stats' = RecordUsage(stats, c.name, found /\ Succeeded(o))
           /\ tool_results' = Collect(tool_results, o, c)
    /\ pos' = pos + 1
    /\ lastOutcome' = o
    /\ UNCHANGED <<store, hashOrder, pc, turn, attempt, user_input, sanitized,
                   resanitized, response, ret, apiCalls,
                   lastError, sawSizeLimit,
                   freshCalls, disk, chat_file>>

\* after the last block: the collected results are appended as one user
\* message and the turn returns (assistant_message, tool_calls)
FinishTurn ==
    /\ pc = "dispatch"
    /\ pos > Len(response.calls)
    /\ LET h == IF tool_results # <<>>
                THEN add_message(store, ListMsg("user", tool_results))
                ELSE store
           sv == IF tool_results # <<>>
                 THEN save_chat_history(h, disk) ELSE "none"
       IN  /\ store' = h
           /\ chat_file' = IF tool_results # <<>>
                           THEN FileAfter(chat_file, h, disk) ELSE chat_file
           /\ stats' = IF sv = "raised"
                       THEN [stats EXCEPT !.other = @ + 1] ELSE stats
           /\ ret' = IF sv = "raised"
                     THEN [kind |-> "processing_error", calls |-> 0]
                     ELSE [kind |-> "ok", calls |-> Len(response.calls)]
    /\ pc' = "idle"
    /\ response' = NoResponse
    /\ tool_results' = <<>>
    /\ pos' = 0
    /\ attempt' = 0
    /\ freshCalls' = FALSE
    /\ lastOutcome' = "none"
    /\ UNCHANGED <<processed_tool_ids, hashOrder, turn, user_input,
                   sanitized, resanitized, runs, apiCalls, turnRuns,
                   lastError, sawSizeLimit, disk>>

\* the user clears the history between two turns
ClearHistory ==
    /\ Accepting
    /\ store # <<>>
    /\ LET c == clear_history(store, processed_tool_ids)
       IN  /\ processed_tool_ids' = c.processed_tool_ids
           /\ store' = c.store
           /\ chat_file' = FileAfter(chat_file, c.store, disk)
           /\ ret' = IF save_chat_history(c.store, disk) = "raised"
                     THEN Propagated ELSE ret
    /\ runs' = [i \in Ids |-> 0]
    /\ UNCHANGED <<stats, hashOrder, pc, turn, attempt, user_input, sanitized,
                   resanitized, response, pos, tool_results, apiCalls,
                   turnRuns, lastError, sawSizeLimit,
                   freshCalls, lastOutcome, disk>>

Next ==
    \/ \E n \in {Small, Huge} : RunTurn(n)
    \/ \E r \in Responses : ApiSuccess(r)
    \/ \E e \in ErrorClasses : ApiFailure(e)
    \/ Backoff
    \/ ProcessFails
    \/ ProcessResponse
    \/ DispatchSkip
    \/ \E o \in ToolOutcomes \cup {"not_found"} : DispatchRun(o)
    \/ FinishTurn
    \/ ClearHistory

Spec == Init /\ [][Next]_vars

\* the same agent loop with a chat directory that cannot be written to
InitDisk ==
    /\ InitLoop
    /\ store = <<>>
    /\ pc = "idle"
    /\ disk = "failing"

SpecDisk == InitDisk /\ [][Next]_vars

\* ------------------------------------------- the sanitizer on any history
\* The sanitizer is a function of the store alone: this specification draws
\* the store from every history of up to MaxMsgs messages of up to MaxBlocks
\* blocks, sanitizes it, and sanitizes the result once more.
AsstBlocks ==
    {TextBlock(Small), TextBlock(Huge)}
    \cup {ToolUseBlock(i, "computer") : i \in Ids}

UserBlocks ==
    {TextBlock(Small), CallRecord(1, "computer", Small)}
    \cup {ToolResultBlock(i, TRUE, Small, FALSE, "true") : i \in Ids}

Contents(B) == UNION {[1..k -> B] : k \in 0..MaxBlocks}

MsgAlphabet ==
    {StrMsg("user", 1, Small), StrMsg("user", 1, Huge),
     StrMsg("assistant", 0, Small)}
    \cup {ListMsg("user", c) : c \in Contents(UserBlocks)}
    \cup {ListMsg("assistant", c) : c \in Contents(AsstBlocks)}

Histories == UNION {[1..n -> MsgAlphabet] : n \in 0..MaxMsgs}

InitSan ==
    /\ InitLoop
    /\ store \in Histories
    /\ pc = "given"
    /\ disk = "ok"

SanitizeStore ==
    /\ pc = "given"
    /\ sanitized' = get_sanitized_conversation_history(store, hashOrder)
    /\ pc' = "sanitized"
    /\ store' = SanitizeEffect(store, processed_tool_ids, hashOrder).store
    /\ processed_tool_ids' =
          SanitizeEffect(store, processed_tool_ids, hashOrder).processed_tool_ids
    /\ UNCHANGED <<stats, hashOrder, turn, attempt,
                   user_input, resanitized, response, pos, tool_results, ret,
                   runs, apiCalls, turnRuns,
                   lastError, sawSizeLimit,
                   freshCalls, lastOutcome, disk, chat_file>>

SanitizeAgain ==
    /\ pc = "sanitized"
    /\ resanitized' = get_sanitized_conversation_history(sanitized, hashOrder)
    /\ pc' = "resanitized"
    /\ UNCHANGED <<store, processed_tool_ids, stats, hashOrder, turn, attempt,
                   user_input, sanitized, response, pos, tool_results, ret,
                   runs, apiCalls, turnRuns,
                   lastError, sawSizeLimit,
                   freshCalls, lastOutcome, disk, chat_file>>

NextSan == SanitizeStore \/ SanitizeAgain

SpecSan == InitSan /\ [][NextSan]_vars

\* ------------------------------------------ the pruning policy on any store
\* _prune_conversation_history is a function of the store alone: this
\* specification draws the store from the stores add_message can have built
\* (small exchanges, then up to MaxMsgs messages among which long inputs,
\* tool errors just above the truncation threshold and screenshots), and
\* applies the stages of the policy one after the other.
PruneAlphabet ==
    {StrMsg("user", 1, Small), StrMsg("user", 1, TextTruncLen + 1),
     StrMsg("user", 1, Huge),
     ListMsg("assistant", <<TextBlock(Small)>>),
     ListMsg("assistant", <<TextBlock(Small), ToolUseBlock(1, "computer")>>),
     ListMsg("user", ResultEntries("screenshot", [id |-> 1, name |-> "computer"])),
     ListMsg("user", <<CallRecord(1, "computer", Small),
                       ToolResultBlock(1, TRUE, Small, FALSE, "true")>>),
     ListMsg("user", <<CallRecord(1, "computer", ResultTruncLen + 1),
                       ToolResultBlock(1, TRUE, ResultTruncLen + 1, FALSE, "true")>>)}

\* k messages of small exchanges: a short input, a short answer, ...
Pad(k) ==
    [j \in 1..k |-> IF j % 2 = 1 THEN StrMsg("user", 1, Small)
                    ELSE ListMsg("assistant", <<TextBlock(Small)>>)]

PruneStores ==
    {Pad(k) \o t : k \in 0..MaxPad,
                   t \in UNION {[1..n -> PruneAlphabet] : n \in 0..MaxMsgs}}

InitPrune ==
    /\ InitLoop
    /\ store \in PruneStores
    /\ pc = "unpruned"
    /\ disk = "ok"

\* if approx_tokens > self.max_token_limit: ... else nothing is done
PruneUnderBudget ==
    /\ pc = "unpruned"
    /\ EstimateTokens(store) <= max_token_limit
    /\ pc' = "pruned"
    /\ UNCHANGED <<store, processed_tool_ids, stats, hashOrder, turn, attempt,
                   user_input, sanitized, resanitized, response, pos,
                   tool_results, ret, runs, apiCalls, turnRuns, lastError,
                   sawSizeLimit,
                   freshCalls, lastOutcome, disk, chat_file>>

\* the loop over the messages: placeholders and truncations
PruneRedact ==
    /\ pc = "unpruned"
    /\ EstimateTokens(store) > max_token_limit
    /\ store' = RedactAll(store)
    /\ pc' = "redacted"
    /\ UNCHANGED <<processed_tool_ids, stats, hashOrder, turn, attempt,
                   user_input, sanitized, resanitized, response, pos,
                   tool_results, ret, runs, apiCalls, turnRuns, lastError,
                   sawSizeLimit,
                   freshCalls, lastOutcome, disk, chat_file>>

\* if len(self.conversation_history) > 10: keep the last 10
PruneWindow ==
    /\ pc = "redacted"
    /\ store' = WindowLast(store)
    /\ pc' = "windowed"
    /\ UNCHANGED <<processed_tool_ids, stats, hashOrder, turn, attempt,
                   user_input, sanitized, resanitized, response, pos,
                   tool_results, ret, runs, apiCalls, turnRuns, lastError,
                   sawSizeLimit,
                   freshCalls, lastOutcome, disk, chat_file>>

\* the size is computed again; if still over budget and more than two
\* messages are left: keep from the last user message
PruneCollapse ==
    /\ pc = "windowed"
    /\ store' = CollapseLast(store)
    /\ pc' = "pruned"
    /\ UNCHANGED <<processed_tool_ids, stats, hashOrder, turn, attempt,
                   user_input, sanitized, resanitized, response, pos,
                   tool_results, ret, runs, apiCalls, turnRuns, lastError,
                   sawSizeLimit,
                   freshCalls, lastOutcome, disk, chat_file>>

NextPrune == PruneUnderBudget \/ PruneRedact \/ PruneWindow \/ PruneCollapse

SpecPrune == InitPrune /\ [][NextPrune]_vars

\* ------------------------------------------------------------------ claims
\* the positions of the blocks of kind t in message m
BlocksOf(m, t) == {k \in DOMAIN m.content : m.content[k].type = t}

\* the tool_use blocks of the assistant messages of a view, as <<message, block>>
InvocationsIn(v) ==
    UNION {{<<m, k>> : k \in BlocksOf(v[m], "tool_use")} :
              m \in {j \in DOMAIN v : v[j].role = "assistant"}}

\* the tool_result blocks of a view, as <<message, block>>
OutcomesIn(v) ==
    UNION {{<<m, k>> : k \in BlocksOf(v[m], "tool_result")} : m \in DOMAIN v}

\* the invocation at p is answered in the message right after it by exactly
\* one outcome
Paired(v, p) ==
    /\ p[1] + 1 <= Len(v)
    /\ v[p[1] + 1].role = "user"
    /\ Cardinality({k \in BlocksOf(v[p[1] + 1], "tool_result") :
           v[p[1] + 1].content[k].id = v[p[1]].content[p[2]].id}) = 1

\* C1: every ToolInvocation of an assistant message of the sanitized view is
\* followed, in the user message right after that assistant message, by
\* exactly one ToolOutcome with its id.
C1_PairingInvariant == \A p \in InvocationsIn(sanitized) : Paired(sanitized, p)

\* C2: no ToolOutcome of the sanitized view is without a ToolInvocation of
\* the same id in an earlier message of the view.
C2_NoOrphanOutcome ==
    \A q \in OutcomesIn(sanitized) :
        \E p \in InvocationsIn(sanitized) :
            /\ p[1] < q[1]
            /\ sanitized[p[1]].content[p[2]].id = sanitized[q[1]].content[q[2]].id

\* C3: every invocation id occurs in at most one ToolInvocation block and in
\* at most one ToolOutcome block of the sanitized view.
C3_AtMostOnce ==
    \A i \in Ids :
        /\ Cardinality({p \in InvocationsIn(sanitized) :
               sanitized[p[1]].content[p[2]].id = i}) <= 1
        /\ Cardinality({q \in OutcomesIn(sanitized) :
               sanitized[q[1]].content[q[2]].id = i}) <= 1

\* C4: sanitizing the sanitized view returns it unchanged.
C4_Idempotent == pc = "resanitized" => resanitized = sanitized

\* C5: within a session a registered tool is invoked at most once for any
\* invocation id, whatever turns and retries (resets included) take place.
C5_ExecutedAtMostOnce == \A i \in Ids : runs[i] <= 1

\* the dispatcher stands at an invocation whose id is already processed
AtProcessedId ==
    /\ pc = "dispatch"
    /\ pos <= Len(response.calls)
    /\ response.calls[pos].id \in processed_tool_ids

\* tool_results holds a tool_result block for id i
HasOutcome(tr, i) == \E k \in DOMAIN tr : IsToolResult(tr[k]) /\ tr[k].id = i

\* C6: at an invocation whose id is already processed the dispatcher invokes
\* no tool and still has a ToolOutcome for that invocation among the results
\* of the turn.
C6_SkipReturnsCachedOutcome ==
    [][AtProcessedId =>
          /\ runs' = runs
          /\ HasOutcome(tool_results', response.calls[pos].id)]_vars

\* C6, amended: at an invocation whose id is already processed the
\* dispatcher invokes no tool and adds nothing: the results of the turn, the
\* store, the processed ids and the statistics stay as they are.
C6_SkipAddsNothing ==
    [][AtProcessedId =>
          /\ runs' = runs
          /\ tool_results' = tool_results
          /\ store' = store
          /\ stats' = stats
          /\ processed_tool_ids' = processed_tool_ids
          /\ pos' = pos + 1]_vars

\* a block was skipped in this turn: fewer result entries than blocks passed
C6_Witness ==
    /\ pc = "dispatch"
    /\ pos >= 2
    /\ Len(tool_results) < 2 * (pos - 1)
    /\ ~HasOutcome(tool_results, response.calls[pos - 1].id)

\* C7: a turn makes at most max_retries remote calls; while the retry loop
\* is still running fewer than max_retries calls have been made, and a turn
\* that has ended has returned a result.
C7_BoundedRetries ==
    /\ apiCalls <= max_retries
    /\ pc \in {"attempt", "sleep"} => apiCalls < max_retries
    /\ (pc = "idle" /\ turn > 0) =>
           ret.kind \in {"ok", "api_error", "processing_error"}

C7_Witness == pc = "idle" /\ apiCalls = max_retries /\ ret.kind = "api_error"

\* C8: the step that ends a turn always hands a (text, tool_calls) pair to
\* the caller; when it ends the turn from the retry loop, max_retries calls
\* have failed, the pair is the error text with no tool call, no tool was
\* invoked and the store ends with the user input, no assistant message
\* after it.
C8_GracefulFailure ==
    [][(pc # "idle" /\ pc' = "idle") =>
          /\ ret'.kind \in {"ok", "api_error", "processing_error"}
          /\ pc = "attempt" =>
                /\ apiCalls' = max_retries
                /\ ret' = [kind |-> "api_error", calls |-> 0]
                /\ turnRuns' = 0
                /\ store' # <<>>
                /\ store'[Len(store')] = user_input
                /\ \A k \in DOMAIN store' :
                      store'[k].role = "assistant" => store'[k] \in Range(store)]_vars

C8_Witness ==
    /\ pc = "idle"
    /\ ret = [kind |-> "api_error", calls |-> 0]
    /\ apiCalls = max_retries
    /\ store # <<>>

\* C9: after an attempt that failed with a size-limit or a pairing error the
\* store is exactly the current user input and no id is processed, up to and
\* at the next attempt.
C9_ResetThenRetry ==
    (pc \in {"sleep", "attempt"} /\ lastError \in {"size_limit", "pairing"}) =>
        /\ store = <<user_input>>
        /\ processed_tool_ids = {}

\* the next attempt after a reset that had something to clear
C9_Witness ==
    /\ pc = "attempt"
    /\ lastError \in {"size_limit", "pairing"}
    /\ turn > 1
    /\ store = <<user_input>>

\* the user messages of h that carry the input of turn t
InputMsgs(h, t) ==
    {k \in DOMAIN h : h[k].role = "user" /\ h[k].str /\ h[k].txt = t}

\* C10: when a turn saw a size-limit error and then succeeded, the store it
\* leaves holds exactly one user message with that turn's input.
C10_InputStoredOnce ==
    (pc = "idle" /\ ret.kind = "ok" /\ sawSizeLimit /\ store # <<>>) =>
        Cardinality(InputMsgs(store, turn)) = 1

C10_Witness ==
    /\ pc = "idle"
    /\ ret.kind = "ok"
    /\ sawSizeLimit
    /\ Cardinality(InputMsgs(store, turn)) = 1
    /\ Len(store) >= 3

\* C11: no stage of the pruning policy (redaction and truncation, window,
\* collapse) increases the estimated size of the store.
C11_MonotonicPruning ==
    [][(pc \in {"unpruned", "redacted", "windowed"}) =>
          EstimateTokens(store') <= EstimateTokens(store)]_vars

\* C12: once the pruning policy has run, the estimated size of the store is
\* at most the token budget, or the store holds exactly one message.
C12_PrunedFitsOrMinimal ==
    pc = "pruned" =>
        (EstimateTokens(store) <= max_token_limit \/ Len(store) = 1)

\* C20: the stages stop as soon as the store is under budget: when the
\* redaction has brought a store of more than KeepLast messages under
\* budget, the window stage removes no message.
C20_WindowOnlyIfOverBudget ==
    [][(/\ pc = "redacted"
        /\ Len(store) > KeepLast
        /\ EstimateTokens(store) <= max_token_limit) =>
          Len(store') = Len(store)]_vars

\* the ids of the tool_result blocks of a list of blocks, in order
ResultIds(c) ==
    LET r == SelectSeq(c, LAMBDA b : IsToolResult(b))
    IN  [j \in DOMAIN r |-> r[j].id]

\* the ids of the first n invocations of the current response, in order
CallIds(n) == [j \in 1..n |-> response.calls[j].id]

\* the dispatcher stands at an invocation whose id is not yet processed
AtUnprocessedId ==
    /\ pc = "dispatch"
    /\ pos <= Len(response.calls)
    /\ response.calls[pos].id \notin processed_tool_ids

\* C13: for a response whose k invocations have distinct, not yet processed
\* ids, the dispatcher takes the invocations one by one in the order of the
\* response, each outcome going to the end of the results, and then appends
\* exactly one user message, right after the assistant message, that holds
\* the k outcomes in that order.
C13_OrderedOutcomes ==
    [][(pc = "dispatch" /\ freshCalls) =>
          IF pos <= Len(response.calls)
          THEN /\ pc' = "dispatch"
               /\ pos' = pos + 1
               /\ ResultIds(tool_results') = CallIds(pos)
          ELSE Len(response.calls) >= 1 =>
               /\ Len(store') >= 2
               /\ Len(store') <= Len(store) + 1
               /\ store'[Len(store') - 1] =
                      ListMsg("assistant", AssistantContent(response))
               /\ store'[Len(store')].role = "user"
               /\ ~store'[Len(store')].str
               /\ ResultIds(store'[Len(store')].content) =
                      CallIds(Len(response.calls))]_vars

\* a turn has stored the outcomes of two invocations with different ids
C13_Witness ==
    /\ pc = "idle"
    /\ ret = [kind |-> "ok", calls |-> 2]
    /\ Len(store) >= 3
    /\ ~store[Len(store)].str
    /\ Len(ResultIds(store[Len(store)].content)) = 2
    /\ ResultIds(store[Len(store)].content)[1] #
           ResultIds(store[Len(store)].content)[2]
    /\ store[Len(store) - 1].role = "assistant"
    /\ Len(store[Len(store) - 1].content) = 3
    /\ store[Len(store) - 1].content[2].id =
           ResultIds(store[Len(store)].content)[1]

\* C14: an invocation that names a tool absent from the registry gets a
\* ToolOutcome with a non-empty error and the dispatcher goes on; the turn
\* ends with a normal return and that outcome in the stored user message.
C14_UnknownToolOutcome ==
    [][(pc = "dispatch") =>
          /\ (AtUnprocessedId /\ response.calls[pos].name \notin Registry) =>
                /\ pc' = "dispatch"
                /\ pos' = pos + 1
                /\ Len(tool_results') = Len(tool_results) + 2
                /\ LET b == tool_results'[Len(tool_results')]
                   IN  /\ IsToolResult(b)
                       /\ b.id = response.calls[pos].id
                       /\ b.is_error = "true"
                       /\ b.str
                       /\ b.len > 0
          /\ pos > Len(response.calls) =>
                /\ ret'.kind = "ok"
                /\ \A k \in DOMAIN tool_results :
                      (/\ tool_results[k].type = "call_record"
                       /\ tool_results[k].name \notin Registry) =>
                          /\ ~store'[Len(store')].str
                          /\ store'[Len(store')].content[k + 1] = tool_results[k + 1]
                          /\ tool_results[k + 1].is_error = "true"]_vars

\* a turn has ended normally and its stored results hold the error outcome
\* of an invocation of a tool that is not in the registry
C14_Witness ==
    /\ pc = "idle"
    /\ ret.kind = "ok"
    /\ store # <<>>
    /\ ~store[Len(store)].str
    /\ \E k \in DOMAIN store[Len(store)].content :
          /\ store[Len(store)].content[k].type = "call_record"
          /\ store[Len(store)].content[k].name \notin Registry
          /\ store[Len(store)].content[k + 1].is_error = "true"
          /\ store[Len(store)].content[k + 1].len > 0

\* the outcomes the dispatcher turns into an error result
FailedOutcomes == {"raise", "error_result", "not_found"}

\* C15: whatever the earlier invocations of the response did, an invocation
\* with an unprocessed id is executed and gets its own outcome at the end of
\* the results, marked is_error exactly when this invocation raised or
\* failed; the earlier outcomes stay as they are, the dispatcher goes on and
\* the turn ends with a normal return.
C15_ErrorIsolated ==
    [][(pc = "dispatch") =>
          /\ AtUnprocessedId =>
                /\ pc' = "dispatch"
                /\ pos' = pos + 1
                /\ Len(tool_results') = Len(tool_results) + 2
                /\ SubSeq(tool_results', 1, Len(tool_results)) = tool_results
                /\ LET b == tool_results'[Len(tool_results')]
                   IN  /\ IsToolResult(b)
                       /\ b.id = response.calls[pos].id
                       /\ b.is_error = IF lastOutcome' \in FailedOutcomes
                                       THEN "true" ELSE "false"
          /\ pos > Len(response.calls) => ret'.kind = "ok"]_vars

\* after an invocation that failed, the next one of the same response ran
C15_Witness ==
    /\ pc = "dispatch"
    /\ Len(tool_results) = 4
    /\ tool_results[2].is_error = "true"
    /\ tool_results[4].is_error = "false"
    /\ lastOutcome \in {"output", "screenshot"}
    /\ response.calls[1].name \in Registry

\* the number of blocks of a history: a string content counts for one
RECURSIVE BlockCount(_)
BlockCount(h) ==
    IF h = <<>> THEN 0
    ELSE (IF Head(h).str THEN 1 ELSE Len(Head(h).content)) + BlockCount(Tail(h))

\* the tool_result blocks of h whose id is the id of no tool_use block of h
Orphans(h) ==
    {q \in OutcomesIn(h) :
        \A p \in InvocationsIn(h) :
            h[p[1]].content[p[2]].id # h[q[1]].content[q[2]].id}

\* h without the block at q, and without its message if that was its only
\* block
WithoutBlock(h, q) ==
    LET c == h[q[1]].content
        rest == SubSeq(c, 1, q[2] - 1) \o SubSeq(c, q[2] + 1, Len(c))
    IN  IF rest = <<>>
        THEN SubSeq(h, 1, q[1] - 1) \o SubSeq(h, q[1] + 1, Len(h))
        ELSE [h EXCEPT ![q[1]].content = rest]

\* C16: when the store holds exactly one ToolOutcome whose id matches no
\* ToolInvocation, and the sanitizer keeps the rest of the store whole, the
\* sanitized view has exactly one block fewer than the store.
C16_DropsOnlyTheOrphan ==
    pc = "sanitized" =>
        \A q \in Orphans(store) :
            (/\ Orphans(store) = {q}
             /\ get_sanitized_conversation_history(WithoutBlock(store, q), hashOrder)
                    = WithoutBlock(store, q)) =>
                BlockCount(sanitized) = BlockCount(store) - 1

\* C17: the step that computes the sanitized view for a remote call leaves
\* the store and the processed ids as they were (unless the call then fails
\* with an error that resets them): same messages, same order, same blocks.
C17_SanitizeFrame ==
    [][(pc = "attempt" /\ lastError' \notin {"size_limit", "pairing"}) =>
          /\ sanitized' = get_sanitized_conversation_history(store, hashOrder)
          /\ store' = store
          /\ processed_tool_ids' = processed_tool_ids]_vars

\* a view that differs from the store it was computed from, ids processed
C17_Witness ==
    /\ pc = "process"
    /\ sanitized # store
    /\ sanitized = get_sanitized_conversation_history(store, hashOrder)
    /\ processed_tool_ids # {}
    /\ Len(store) >= 4

C19_SaveFailureSwallowed ==
    [][SaveFails(store', disk) =>
          /\ ret'.kind # "exception"
          /\ turn' = turn + 1 =>
                /\ store' = add_message(store, user_input')
                /\ pc' = "attempt"
          /\ (pc = "attempt" /\ lastError' \in {"size_limit", "pairing"}) =>
                /\ store' = <<user_input>>
                /\ processed_tool_ids' = {}
                /\ pc' \in {"sleep", "idle"}
                /\ pc' = "idle" => ret' = FailureReturn
          /\ (pc = "dispatch" /\ pc' = "idle" /\ tool_results # <<>>) =>
                /\ store' = add_message(store, ListMsg("user", tool_results))
                /\ ret'.kind = "ok"
                /\ stats' = stats
          /\ (pc = "idle" /\ turn' = turn /\ store # <<>>) =>
                /\ store' = <<>>
                /\ processed_tool_ids' = {}
                /\ ret' = ret]_vars

\* nothing could ever be written, and a turn with tool results was stored
\* and has returned normally
C19_Witness ==
    /\ disk = "failing"
    /\ chat_file = "none"
    /\ pc = "idle"
    /\ ret.kind = "ok"
    /\ Len(store) >= 3
    /\ HasRecord(store)

\* a user message that holds tool outcomes and no text: every block is a
\* tool_result or the call record the dispatcher stores with it
OutcomeOnly(m) ==
    /\ m.role = "user"
    /\ ~m.str
    /\ HasToolResult(m)
    /\ \A k \in DOMAIN m.content :
          m.content[k].type \in {"tool_result", "call_record"}

\* C21: when the collapse stage cuts the store, it keeps it from the most
\* recent user message that is not a tool-outcome-only message, or keeps the
\* single most recent message when there is no such user message.
C21_CollapseStart ==
    [][(pc = "windowed" /\ store' # store) =>
          LET starts == {i \in DOMAIN store :
                            store[i].role = "user" /\ ~OutcomeOnly(store[i])}
          IN  IF starts # {}
              THEN store' = SubSeq(store,
                        CHOOSE i \in starts : \A j \in starts : j <= i,
                        Len(store))
              ELSE store' = SubSeq(store, Len(store), Len(store))]_vars

\* the ids of the tool_use blocks of a list of blocks, in order
InvocationIds(c) ==
    LET r == SelectSeq(c, LAMBDA b : IsToolUse(b))
    IN  [j \in DOMAIN r |-> r[j].id]

\* the elements of the sequence of ids s are pairwise different
DistinctIds(s) == \A j, k \in DOMAIN s : j # k => s[j] # s[k]

\* C22: every assistant message of the sanitized view that holds several
\* ToolInvocations, with different ids, is followed by one user message
\* that carries exactly the ToolOutcomes of these invocations, in the order
\* of the invocations.
C22_GroupedOutcomes ==
    \A m \in DOMAIN sanitized :
        (/\ sanitized[m].role = "assistant"
         /\ ~sanitized[m].str
         /\ Len(InvocationIds(sanitized[m].content)) >= 2
         /\ DistinctIds(InvocationIds(sanitized[m].content))) =>
            /\ m + 1 <= Len(sanitized)
            /\ sanitized[m + 1].role = "user"
            /\ ~sanitized[m + 1].str
            /\ ResultIds(sanitized[m + 1].content) =
                   InvocationIds(sanitized[m].content)

\* a message the sanitizer has nothing to do with: a string content, or a
\* user list content without a tool_result
IsPassThrough(m) == m.str \/ (m.role = "user" /\ ~HasToolResult(m))

\* the view before the secondary truncation
WalkOf(h, ord) == SanitizeWalk(h, ValidToolIds(h), ToolResultsOf(h), {}, ord)

\* C23: as long as the view is within budget, the user messages without
\* tool content and the string-content messages of the view are those of
\* the store, unchanged and in the same order.
C23_PassThrough ==
    (pc = "sanitized" /\ EstimateTokens(WalkOf(store, hashOrder)) <= max_token_limit) =>
        SelectSeq(sanitized, LAMBDA m : IsPassThrough(m))
            = SelectSeq(store, LAMBDA m : IsPassThrough(m))

\* a store of which the sanitizer dropped something and passed a string
\* message and a user list message through
C23_Witness ==
    /\ pc = "sanitized"
    /\ EstimateTokens(WalkOf(store, hashOrder)) <= max_token_limit
    /\ Len(sanitized) < Len(store)
    /\ \E j, k \in DOMAIN sanitized :
          /\ j < k
          /\ sanitized[j].str
          /\ sanitized[k].role = "user"
          /\ ~sanitized[k].str
          /\ sanitized[k].content # <<>>
          /\ ~HasToolResult(sanitized[k])

\* the step inserts a message into the store: the user input of a new turn,
\* the assistant message of a response, the results of the dispatcher
Inserting ==
    \/ turn' = turn + 1
    \/ pc = "process" /\ pc' = "dispatch"
    \/ pc = "dispatch" /\ pc' = "idle" /\ tool_results # <<>>

\* C24: every insertion of a message during a turn runs the pruning policy
\* first: the store after the insertion is the pruned store followed by the
\* new message, and is not pruned again.
C24_PruneBeforeInsert ==
    [][Inserting =>
          /\ store' # <<>>
          /\ SubSeq(store', 1, Len(store') - 1)
                 = prune_conversation_history(store)]_vars

\* C25: a clear leaves nothing: after the clear asked by the user the store
\* and the processed ids are both empty, and after the clear of an error
\* reset no id is processed and the store holds nothing but the user input
\* that the reset adds again.
C25_ClearEmptiesBoth ==
    [][/\ (pc = "idle" /\ pc' = "idle" /\ turn' = turn) =>
              (store' = <<>> /\ processed_tool_ids' = {})
       /\ (pc = "attempt" /\ lastError' \in {"size_limit", "pairing"}) =>
              (Len(store') = 1 /\ store'[1] = user_input
               /\ processed_tool_ids' = {})]_vars

\* the history was cleared after a turn that had run a tool
C25_Witness ==
    /\ pc = "idle"
    /\ store = <<>>
    /\ processed_tool_ids = {}
    /\ turnRuns > 0
    /\ ret.kind = "ok"

\* for every tool name, count = success + failures
UsageConsistent(st) ==
    \A n \in ToolNames :
        st.tool_usage[n].count
            = st.tool_usage[n].success + st.tool_usage[n].failures

\* C26: the per-tool statistics are consistent in every state; an executed
\* invocation raises the count of its tool by one and exactly one of its
\* success and failures by one, and leaves the other tools alone; an
\* invocation skipped as already processed changes no statistic.
C26_StatsConsistent ==
    [][/\ UsageConsistent(stats)
       /\ UsageConsistent(stats')
       /\ AtUnprocessedId =>
             LET n == response.calls[pos].name
                 u == stats.tool_usage[n]
                 v == stats'.tool_usage[n]
             IN  /\ v.count = u.count + 1
                 /\ \/ v.success = u.success + 1 /\ v.failures = u.failures
                    \/ v.success = u.success /\ v.failures = u.failures + 1
                 /\ \A o \in ToolNames \ {n} :
                       stats'.tool_usage[o] = stats.tool_usage[o]
       /\ AtProcessedId => stats' = stats]_vars

\* one tool has been invoked twice, once with success and once without
C26_Witness ==
    \E n \in ToolNames :
        /\ stats.tool_usage[n].count = 2
        /\ stats.tool_usage[n].success = 1
        /\ stats.tool_usage[n].failures = 1

\* C27: an attempt that fails with an error that is neither a size-limit nor
\* a pairing error leaves the store and the processed ids as they are, and
\* of the statistics only the api error counter changes, by one.
C27_OtherErrorFrame ==
    [][(pc = "attempt" /\ lastError' = "other") =>
          /\ store' = store
          /\ processed_tool_ids' = processed_tool_ids
          /\ stats' = [stats EXCEPT !.api = @ + 1]
          /\ pc' = "sleep" => attempt' = attempt]_vars

\* a retry is pending after such an error, with a history and processed ids
\* that a reset would have dropped
C27_Witness ==
    /\ pc = "sleep"
    /\ lastError = "other"
    /\ processed_tool_ids # {}
    /\ Len(store) >= 4
    /\ stats.api >= 1

\* C28: the view computed for a remote call, at the first attempt of a turn
\* and at every retry, is not empty and ends with the user input of the
\* turn.
C28_ViewEndsWithInput ==
    [][(pc = "attempt") =>
          /\ sanitized' # <<>>
          /\ sanitized'[Len(sanitized')] = user_input]_vars

\* the call of a second turn succeeded on a retry after a reset
C28_Witness ==
    /\ pc = "process"
    /\ turn = 2
    /\ apiCalls >= 2
    /\ sawSizeLimit
    /\ sanitized = <<user_input>>
    /\ user_input.txt = 2

\* the ids of the tool_result blocks held in a list of messages
StoredOutcomeIds(h) == {h[p[1]].content[p[2]].id : p \in OutcomesIn(h)}

\* C29: in every reachable state, the id of every tool_result block held in
\* the conversation store is a member of processed_tool_ids.
C29_StoredOutcomesProcessed == StoredOutcomeIds(store) \subseteq processed_tool_ids

\* between turns the store holds the outcomes of two different invocations
C29_Witness ==
    /\ pc = "idle"
    /\ Cardinality(StoredOutcomeIds(store)) = 2

\* C30: every tool name advertised in the request's tool schemas is a key of
\* the registry, so an invocation that names an advertised tool is found at
\* dispatch and is never answered with a tool-not-found outcome.
C30_AdvertisedToolFound ==
    [][(AtUnprocessedId /\ response.calls[pos].name \in AdvertisedNames) =>
          /\ response.calls[pos].name \in Registry
          /\ lastOutcome' # "not_found"]_vars

====
